---- MODULE Spec2Model ----
(***************************************************************************)
(* Federation schema composition of src/lib/federation.js.                 *)
(*                                                                         *)
(* The source file holds two revisions of the composition module, one      *)
(* after the other: revision 1 (lines 25-493) and revision 2 (lines        *)
(* 519-876).  Both export buildFederationSchema and extendFederationSchema. *)
(* The variable `revision` selects the one a run executes.                 *)
(*                                                                         *)
(* The graphql-js schema engine is modelled by what it does with the       *)
(* calls the source makes: a schema is a map from type names to types      *)
(* (kind, fields, directives gathered from the AST nodes, union members),  *)
(* the three root pointers and the set of directive definitions.           *)
(***************************************************************************)
EXTENDS Integers, Sequences, FiniteSets, TLC

\* Bounds of the model
MaxDefs == 2
MaxErrors == 2
MaxReps == 3
MaxCalls == 2

-----------------------------------------------------------------------------
(* AST node kinds, the values of graphql's Kind *)

OBJECT_TYPE_DEFINITION == "ObjectTypeDefinition"
OBJECT_TYPE_EXTENSION == "ObjectTypeExtension"
INTERFACE_TYPE_DEFINITION == "InterfaceTypeDefinition"
INTERFACE_TYPE_EXTENSION == "InterfaceTypeExtension"
SCALAR_TYPE_DEFINITION == "ScalarTypeDefinition"
SCALAR_TYPE_EXTENSION == "ScalarTypeExtension"
DIRECTIVE_DEFINITION == "DirectiveDefinition"
Undefined == "undefined"

RootNames == {"Query", "Mutation", "Subscription"}

isTypeDefinitionNode(node) ==
    node.kind \in {SCALAR_TYPE_DEFINITION, OBJECT_TYPE_DEFINITION,
                   INTERFACE_TYPE_DEFINITION}

isTypeExtensionNode(node) ==
    node.kind \in {SCALAR_TYPE_EXTENSION, OBJECT_TYPE_EXTENSION,
                   INTERFACE_TYPE_EXTENSION}

\* A stub that keeps the kind of the extension node
extensionKindAsStubKind(kind) == kind

\* A lookup in the table; a kind that is no key of it yields undefined.
extensionKindToDefinitionKind(kind) ==
    CASE kind = SCALAR_TYPE_EXTENSION -> SCALAR_TYPE_DEFINITION
      [] kind = OBJECT_TYPE_EXTENSION -> OBJECT_TYPE_DEFINITION
      [] kind = INTERFACE_TYPE_EXTENSION -> INTERFACE_TYPE_DEFINITION
      [] OTHER -> Undefined

definitionKindToExtensionKind(kind) ==
    CASE kind = SCALAR_TYPE_DEFINITION -> SCALAR_TYPE_EXTENSION
      [] kind = OBJECT_TYPE_DEFINITION -> OBJECT_TYPE_EXTENSION
      [] kind = INTERFACE_TYPE_DEFINITION -> INTERFACE_TYPE_EXTENSION
      [] OTHER -> Undefined

-----------------------------------------------------------------------------
(* Declarations of the parsed document.  A node has its name, its kind, the *)
(* directives @extends and @key as flags, its field names, and the subset   *)
(* of the fields that carry @external.                                      *)

Node(name, kind, ext, key, fields, external) ==
    [name |-> name, kind |-> kind, extends |-> ext, key |-> key,
     fields |-> fields, external |-> external]

QueryNodes ==
    { Node("Query", OBJECT_TYPE_DEFINITION, FALSE, FALSE, {"a"}, {}),
      Node("Query", OBJECT_TYPE_DEFINITION, FALSE, FALSE, {"_entities"}, {}),
      Node("Query", OBJECT_TYPE_DEFINITION, TRUE, FALSE, {"a"}, {}),
      Node("Query", OBJECT_TYPE_EXTENSION, FALSE, FALSE, {"a"}, {}) }

OtherRootNodes ==
    { Node("Mutation", OBJECT_TYPE_DEFINITION, FALSE, FALSE, {"m"}, {}),
      Node("Subscription", OBJECT_TYPE_EXTENSION, FALSE, FALSE, {"s"}, {}) }

EntityNodes ==
    { Node("T", OBJECT_TYPE_DEFINITION, FALSE, FALSE, {"t"}, {}),
      Node("T", OBJECT_TYPE_DEFINITION, FALSE, TRUE, {"t"}, {}),
      Node("T", OBJECT_TYPE_DEFINITION, TRUE, TRUE, {"t"}, {}),
      Node("T", OBJECT_TYPE_DEFINITION, TRUE, FALSE, {"t", "x"}, {"x"}),
      Node("T", OBJECT_TYPE_EXTENSION, FALSE, FALSE, {"u"}, {}),
      Node("T", OBJECT_TYPE_EXTENSION, FALSE, TRUE, {"u", "x"}, {"x"}),
      Node("T", OBJECT_TYPE_EXTENSION, FALSE, FALSE, {"x"}, {"x"}) }

InterfaceNodes ==
    { Node("T", INTERFACE_TYPE_EXTENSION, FALSE, FALSE, {"i"}, {}),
      Node("T", INTERFACE_TYPE_DEFINITION, FALSE, TRUE, {"i"}, {}) }

DirectiveNodes ==
    { Node("custom", DIRECTIVE_DEFINITION, FALSE, FALSE, {}, {}) }

Nodes == QueryNodes \cup OtherRootNodes \cup EntityNodes \cup InterfaceNodes
         \cup DirectiveNodes

\* parse() yields at least one definition
Documents == UNION { [1..n -> Nodes] : n \in 1..MaxDefs }

-----------------------------------------------------------------------------
(* Stub & extension partitioner *)

removeExternalFields(typeDefinition) ==
    [typeDefinition EXCEPT !.fields = typeDefinition.fields \ typeDefinition.external,
                           !.external = {}]

hasExtendsDirective(definition) == definition.extends

\* A JavaScript object used as a map: a sequence of <<key, value>> pairs in
\* insertion order; assigning an existing key keeps its position.
Keys(map) == { map[i][1] : i \in 1..Len(map) }

Get(map, key) == map[CHOOSE i \in 1..Len(map) : map[i][1] = key][2]

Put(map, key, value) ==
    IF key \in Keys(map)
    THEN [i \in 1..Len(map) |-> IF map[i][1] = key THEN <<key, value>> ELSE map[i]]
    ELSE Append(map, <<key, value>>)

Values(map) == [i \in 1..Len(map) |-> map[i][2]]

EmptyPartition ==
    [definitionsMap |-> <<>>, extensionsMap |-> <<>>, extensions |-> <<>>,
     directiveDefinitions |-> <<>>, nodes |-> <<>>]

\* Revision 1 only: the gateway forces a root declaration to an extension
ForceRoot(definition, isGateway, rev) ==
    rev = 1 /\ isGateway /\ definition.name \in RootNames

\* One iteration of the loop of getStubTypes.  acc.nodes collects the nodes
\* as the iteration leaves them (the loop assigns definition.kind in place).
PartitionStep(acc, definition, isGateway, rev) ==
    LET typeName == definition.name
        isTypeExtensionByDirective == hasExtendsDirective(definition)
        forced == ForceRoot(definition, isGateway, rev)
        kind == definitionKindToExtensionKind(definition.kind)
        extMap0 == IF forced
                   THEN Put(acc.extensionsMap, typeName, [kind |-> kind, name |-> typeName])
                   ELSE acc.extensionsMap
        def0 == IF forced THEN [definition EXCEPT !.kind = kind] ELSE definition
    IN  IF isTypeDefinitionNode(def0) /\ ~isTypeExtensionByDirective
        THEN [acc EXCEPT !.definitionsMap = Put(@, typeName, def0),
                         !.extensionsMap = extMap0,
                         !.nodes = Append(@, def0)]
        ELSE IF isTypeExtensionNode(def0)
                \/ (isTypeDefinitionNode(def0) /\ isTypeExtensionByDirective)
        THEN LET stubKind == IF isTypeExtensionByDirective
                             THEN def0.kind
                             ELSE extensionKindToDefinitionKind(def0.kind)
                 def1 == IF isTypeExtensionByDirective
                         THEN [def0 EXCEPT !.kind = definitionKindToExtensionKind(def0.kind)]
                         ELSE def0
             IN  [acc EXCEPT !.extensionsMap =
                                 Put(extMap0, typeName, [kind |-> stubKind, name |-> typeName]),
                             !.extensions =
                                 Append(@, IF isGateway THEN removeExternalFields(def1) ELSE def1),
                             !.nodes = Append(@, def1)]
        ELSE IF def0.kind = DIRECTIVE_DEFINITION
        THEN [acc EXCEPT !.directiveDefinitions = Append(@, def0),
                         !.extensionsMap = extMap0,
                         !.nodes = Append(@, def0)]
        ELSE [acc EXCEPT !.extensionsMap = extMap0, !.nodes = Append(@, def0)]

RECURSIVE PartitionLoop(_, _, _, _, _)
PartitionLoop(acc, schemaDefinitions, i, isGateway, rev) ==
    IF i > Len(schemaDefinitions)
    THEN acc
    ELSE PartitionLoop(PartitionStep(acc, schemaDefinitions[i], isGateway, rev),
                       schemaDefinitions, i + 1, isGateway, rev)

\* The filter of the stub names: revision 2 also excludes the root names
StubFilter(extensionTypeName, definitionsMap, rev) ==
    /\ extensionTypeName \notin Keys(definitionsMap)
    /\ (rev = 2 => extensionTypeName \notin RootNames)

getStubTypes(schemaDefinitions, isGateway, rev) ==
    LET acc == PartitionLoop(EmptyPartition, schemaDefinitions, 1, isGateway, rev)
        keep(pair) == StubFilter(pair[1], acc.definitionsMap, rev)
    IN  [typeStubs |-> Values(SelectSeq(acc.extensionsMap, keep)),
         extensions |-> acc.extensions,
         definitions |-> acc.directiveDefinitions \o Values(acc.definitionsMap),
         nodes |-> acc.nodes]

-----------------------------------------------------------------------------
(* The schema engine (graphql-js), as far as the source calls it *)

TypeNames == {"Query", "Mutation", "Subscription", "T",
              "_Service", "_Entity", "_Any", "_FieldSet"}

FederationDirectives == {"external", "requires", "provides", "key", "extends"}

\* A field of a type.  typed: the field has its declared type and arguments;
\* resolve: a resolver is bound to it.
Field(name) == [name |-> name, typed |-> TRUE, resolve |-> FALSE]

Fields(names) == { Field(n) : n \in names }

FieldNames(fields) == { f.name : f \in fields }

\* {...old, ...new}: a new field replaces the old field of the same name
Override(old, new) == { f \in old : f.name \notin FieldNames(new) } \cup new

NoType == [kind |-> "absent", fields |-> {}, key |-> FALSE, members |-> {}]

\* new GraphQLSchema({ query: undefined })
EmptySchema ==
    [types |-> [n \in TypeNames |-> NoType],
     query |-> FALSE, mutation |-> FALSE, subscription |-> FALSE,
     directives |-> {}]

getType(schema, name) == schema.types[name]

hasType(schema, name) == schema.types[name].kind # "absent"

isObjectType(type) == type.kind = "object"

TypeKindOf(node) ==
    CASE node.kind = OBJECT_TYPE_DEFINITION -> "object"
      [] node.kind = INTERFACE_TYPE_DEFINITION -> "interface"
      [] node.kind = SCALAR_TYPE_DEFINITION -> "scalar"
      [] OTHER -> "absent"

Range(seq) == { seq[i] : i \in 1..Len(seq) }

TypeDefs(nodes) == { i \in 1..Len(nodes) : isTypeDefinitionNode(nodes[i]) }

TypeExtensions(nodes, name) ==
    { nodes[i] : i \in { j \in 1..Len(nodes) :
                           isTypeExtensionNode(nodes[j]) /\ nodes[j].name = name } }

ExtensionFields(nodes, name) ==
    Fields(UNION { e.fields : e \in TypeExtensions(nodes, name) })

\* extendSchemaImpl: every existing type is rebuilt with the fields and the
\* AST nodes of its extensions; every type definition of the document then
\* takes the place of its name (the last definition of a name wins), built
\* with the extensions of that name; an extension of a name that is neither
\* in the schema nor defined by the document contributes nothing; the root
\* pointers follow the names.
ExtendedType(type, nodes, name) ==
    IF type.kind \in {"object", "interface"}
    THEN [type EXCEPT !.fields = Override(@, ExtensionFields(nodes, name)),
                      !.key = @ \/ (\E e \in TypeExtensions(nodes, name) : e.key)]
    ELSE type

BuiltType(nodes, name) ==
    LET last == CHOOSE i \in TypeDefs(nodes) :
                   /\ nodes[i].name = name
                   /\ \A j \in TypeDefs(nodes) : nodes[j].name = name => j <= i
        def == nodes[last]
    IN  [kind |-> TypeKindOf(def),
         fields |-> IF TypeKindOf(def) = "scalar" THEN {}
                    ELSE Override(Fields(def.fields), ExtensionFields(nodes, name)),
         key |-> def.key \/ (\E e \in TypeExtensions(nodes, name) : e.key),
         members |-> {}]

extendSchema(schema, nodes) ==
    LET defined == { nodes[i].name : i \in TypeDefs(nodes) }
    IN  [schema EXCEPT
           !.types = [n \in TypeNames |->
                        IF n \in defined THEN BuiltType(nodes, n)
                        ELSE IF hasType(schema, n) THEN ExtendedType(schema.types[n], nodes, n)
                        ELSE NoType],
           !.directives = @ \cup { nodes[i].name : i \in { j \in 1..Len(nodes) :
                                       nodes[j].kind = DIRECTIVE_DEFINITION } }]

\* Rebuilding a type reads the type and the arguments of each of its fields
\* (toConfig); a field that is only { resolve } makes this a TypeError.
CanRebuild(schema) ==
    \A n \in TypeNames : \A f \in schema.types[n].fields : f.typed

\* assertValidSDLExtension, run by extendSchema unless the caller passes
\* assumeValid or assumeValidSDL: a type definition must have a new name
\* (UniqueTypeNames), an extension must name a type of the same kind that the
\* schema or the document defines (PossibleTypeExtensions), a directive
\* definition must have a new name (UniqueDirectiveNames), a field of an
\* extension must be new to the type (UniqueFieldDefinitionNames), and every
\* node must have a kind.
ValidSDLExtension(schema, nodes) ==
    /\ \A i \in 1..Len(nodes) : nodes[i].kind # Undefined
    /\ \A i \in TypeDefs(nodes) :
          /\ ~hasType(schema, nodes[i].name)
          /\ \A j \in TypeDefs(nodes) : nodes[j].name = nodes[i].name => j = i
    /\ \A i \in 1..Len(nodes) :
          isTypeExtensionNode(nodes[i]) =>
             LET target == extensionKindToDefinitionKind(nodes[i].kind)
                 name == nodes[i].name
             IN  \/ \E j \in TypeDefs(nodes) :
                       nodes[j].name = name /\ nodes[j].kind = target
                 \/ /\ hasType(schema, name)
                    /\ schema.types[name].kind = TypeKindOf([kind |-> target])
                    /\ nodes[i].fields \cap FieldNames(schema.types[name].fields) = {}
    /\ \A i \in 1..Len(nodes) :
          nodes[i].kind = DIRECTIVE_DEFINITION =>
             /\ nodes[i].name \notin schema.directives
             /\ \A j \in 1..Len(nodes) :
                   (nodes[j].kind = DIRECTIVE_DEFINITION /\ nodes[j].name = nodes[i].name)
                      => j = i

\* new GraphQLSchema({ ...schema.toConfig(), query: new GraphQLObjectType({
\*   name: 'Query', fields: {} }) })
WithEmptyQuery(schema) ==
    [schema EXCEPT !.types["Query"] = [NoType EXCEPT !.kind = "object"],
                   !.query = TRUE]

\* new GraphQLSchema({ ...schema.toConfig(), query: schema.getType('Query'),
\*   mutation: schema.getType('Mutation'), subscription: ... })
WithRoots(schema) ==
    [schema EXCEPT !.query = hasType(schema, "Query"),
                   !.mutation = hasType(schema, "Mutation"),
                   !.subscription = hasType(schema, "Subscription")]

-----------------------------------------------------------------------------
(* The federation base documents *)

BASE_FEDERATION_TYPES ==
    << Node("_Any", SCALAR_TYPE_DEFINITION, FALSE, FALSE, {}, {}),
       Node("_FieldSet", SCALAR_TYPE_DEFINITION, FALSE, FALSE, {}, {}),
       Node("external", DIRECTIVE_DEFINITION, FALSE, FALSE, {}, {}),
       Node("requires", DIRECTIVE_DEFINITION, FALSE, FALSE, {}, {}),
       Node("provides", DIRECTIVE_DEFINITION, FALSE, FALSE, {}, {}),
       Node("key", DIRECTIVE_DEFINITION, FALSE, FALSE, {}, {}),
       Node("extends", DIRECTIVE_DEFINITION, FALSE, FALSE, {}, {}) >>

\* Revision 2 adds `extend type Query { _service: _Service! }` to the document
FEDERATION_SCHEMA(rev) ==
    BASE_FEDERATION_TYPES
    \o << Node("_Service", OBJECT_TYPE_DEFINITION, FALSE, FALSE, {"sdl"}, {}) >>
    \o (IF rev = 2
        THEN << Node("Query", OBJECT_TYPE_EXTENSION, FALSE, FALSE, {"_service"}, {}) >>
        ELSE << >>)

\* The schemas a caller of the exported extendFederationSchema passes: a
\* service schema that has the federation types and Query._service.
CallerSchemas ==
    { [extendSchema(EmptySchema,
                    FEDERATION_SCHEMA(1)
                    \o << Node("Query", OBJECT_TYPE_DEFINITION, FALSE, FALSE,
                               {"_service"}, {}) >>)
         EXCEPT !.query = TRUE] }

-----------------------------------------------------------------------------
(* Federation resolver synthesizer and SDL reflection *)

typeIncludesDirective(type) == type.key

queryFields(schema) == schema.types["Query"].fields

hasQueryField(schema, name) == name \in FieldNames(queryFields(schema))

\* queryFields.<name> = { ...queryFields.<name>, resolve }
BindResolver(schema, name) ==
    [schema EXCEPT !.types["Query"].fields =
        IF name \in FieldNames(@)
        THEN { IF f.name = name THEN [f EXCEPT !.resolve = TRUE] ELSE f : f \in @ }
        ELSE @ \cup {[name |-> name, typed |-> FALSE, resolve |-> TRUE]}]

\* Revision 1 extends the schema only if Query has no _entities field yet;
\* revision 2 always extends it.
EntitiesFieldMissing(schema, rev) ==
    IF rev = 1 THEN ~hasQueryField(schema, "_entities") ELSE TRUE

\* Both revisions look for entity types among the object types
IsEntityType(type) == isObjectType(type) /\ typeIncludesDirective(type)

EntityTypes(schema) == { n \in TypeNames : IsEntityType(schema.types[n]) }

\* extendSchema(schema, parse(`union _Entity = ... extend type Query {
\*   _entities(representations: [_Any!]!): [_Entity]! }`), { assumeValid: true })
WithEntities(schema) ==
    [schema EXCEPT
       !.types["_Entity"] = [kind |-> "union", fields |-> {}, key |-> FALSE,
                             members |-> EntityTypes(schema)],
       !.types["Query"].fields = Override(@, {Field("_entities")})]

addEntitiesResolverThrows(schema, rev) ==
    /\ EntityTypes(schema) # {}
    /\ EntitiesFieldMissing(schema, rev)
    /\ ~CanRebuild(schema)

addEntitiesResolver(schema, rev) ==
    IF EntityTypes(schema) # {}
    THEN BindResolver(IF EntitiesFieldMissing(schema, rev)
                      THEN WithEntities(schema)
                      ELSE schema,
                      "_entities")
    ELSE schema

\* printSchema / parse: the document of a schema
printSchema(schema) ==
    [directives |-> schema.directives,
     types |-> { [name |-> n, kind |-> schema.types[n].kind,
                  fields |-> FieldNames(schema.types[n].fields),
                  members |-> schema.types[n].members] :
                 n \in { m \in TypeNames : hasType(schema, m) } }]

\* Revision 1.  isCommonDirective is the constant false: no directive
\* definition is removed.
stripCommonPrimitives(doc) ==
    [directives |-> doc.directives,
     types |->
       { IF t.name = "Query"
         THEN [t EXCEPT !.fields = @ \ {"_service", "_entities"}]
         ELSE t :
         t \in { u \in doc.types :
                   /\ ~(u.kind = "scalar" /\ u.name \in {"_Any", "_FieldSet"})
                   /\ ~(u.kind = "union" /\ u.name = "_Entity")
                   /\ ~(u.kind = "object" /\ u.name = "_Service")
                   /\ ~(u.kind = "object" /\ u.name = "Query"
                        /\ u.fields \ {"_service", "_entities"} = {}) } }]

\* Revision 1: extendSchema(schema, parse(`extend type Query { _service:
\* _Service! }`)) if Query has no _service field
WithServiceField(schema) ==
    IF hasQueryField(schema, "_service")
    THEN schema
    ELSE [schema EXCEPT !.types["Query"].fields = @ \cup {Field("_service")}]

\* Revision 1: the SDL is built from the schema that has the field
serviceSDL(schema) == stripCommonPrimitives(printSchema(WithServiceField(schema)))

addServiceResolver1(schema) == BindResolver(WithServiceField(schema), "_service")

\* Revision 2: getServiceSDL deletes the fields from query._fields, the field
\* map of the Query type of the schema it was given.
AfterGetServiceSDL(schema) ==
    [schema EXCEPT !.types["Query"].fields =
        { f \in @ : f.name \notin {"_service", "_entities"} }]

getServiceSDL(schema) ==
    LET config == AfterGetServiceSDL(schema)
    IN  printSchema([config EXCEPT
          !.directives = @ \ FederationDirectives,
          !.types = [n \in TypeNames |->
                       IF n \in {"_Any", "_FieldSet"} THEN NoType ELSE @[n]]])

addServiceResolver2(schema) == BindResolver(schema, "_service")

NoSDL == [directives |-> {}, types |-> {}]

-----------------------------------------------------------------------------
(* The composition validator.  validateSDL runs the rule set of              *)
(* ./federation/compositionRules, which reports zero or more errors.         *)

ErrorLists ==
    { [i \in 1..n |-> i] : n \in 0..MaxErrors }
    \cup { [i \in 1..n |-> n + 1 - i] : n \in 2..MaxErrors }

validateSDL == ErrorLists

NoError == [kind |-> "none", errors |-> << >>]

\* errors.length === 1: throw errors[0]; errors.length > 1: throw an Error
\* whose errors property is the list
Raised(errs) ==
    IF Len(errs) = 1
    THEN [kind |-> "error", errors |-> << errs[1] >>]
    ELSE IF Len(errs) > 1
    THEN [kind |-> "aggregate", errors |-> errs]
    ELSE NoError

-----------------------------------------------------------------------------
(* State *)

VARIABLES
    revision,      \* 1: lines 25-493 of the source, 2: lines 519-876
    isGateway,     \* the mode flag
    document,      \* the definitions of the parsed document
    entry,         \* the exported function that was called
    pc,            \* position of the call
    schema,        \* extendedSchema, the schema under construction
    partition,     \* what getStubTypes returned
    errors,        \* what validateSDL returned
    thrown,        \* the error the call raised
    result,        \* the schema the call returned
    sdl,           \* the SDL the _service resolver returns
    steps,         \* the merge steps done so far, in order
    originalSchema,\* the schema extendFederationSchema was called with
    calls,         \* the number of calls of getStubTypes on the document
    representations, \* the argument of a call of the _entities resolver
    resolveReference,\* whether type T carries a reference resolver
    entities,      \* the array the _entities resolver returned
    rpc,           \* position of the call of the _entities resolver
    rthrown        \* the error the _entities resolver raised

compositionVars ==
    << revision, isGateway, document, entry, pc, schema, partition, errors,
       thrown, result, sdl, steps, originalSchema, calls >>

resolverVars == << representations, resolveReference, entities, rpc, rthrown >>

vars == << compositionVars, resolverVars >>

NoPartition == [typeStubs |-> << >>, extensions |-> << >>, definitions |-> << >>,
                nodes |-> << >>]

NoSchema == [EmptySchema EXCEPT !.directives = {"none"}]

Init ==
    /\ revision \in {1, 2}
    /\ isGateway \in BOOLEAN
    /\ document \in Documents
    /\ entry = "none"
    /\ pc = "idle"
    /\ schema = EmptySchema
    /\ partition = NoPartition
    /\ errors = << >>
    /\ thrown = NoError
    /\ result = NoSchema
    /\ sdl = NoSDL
    /\ steps = << >>
    /\ originalSchema = NoSchema
    /\ calls = 0
    /\ representations = << >>
    /\ resolveReference = FALSE
    /\ entities = << >>
    /\ rpc = "none"
    /\ rthrown = "none"

Fail(kind) ==
    /\ pc' = "failed"
    /\ thrown' = [kind |-> kind, errors |-> << >>]

\* buildFederationSchema up to its call of extendFederationSchema
BuildFederationSchema ==
    /\ pc = "idle"
    /\ entry' = "build"
    /\ LET base == IF isGateway THEN BASE_FEDERATION_TYPES
                   ELSE FEDERATION_SCHEMA(revision)
       IN  IF ValidSDLExtension(EmptySchema, base)
           THEN /\ schema' = extendSchema(EmptySchema, base)
                /\ originalSchema' = schema'
                /\ pc' = "extend"
                /\ UNCHANGED thrown
           ELSE /\ Fail("GraphQLError")
                /\ UNCHANGED << schema, originalSchema >>
    /\ UNCHANGED << revision, isGateway, document, partition, errors, result, sdl, steps,
                    calls >>
    /\ UNCHANGED resolverVars

\* A caller calls the exported extendFederationSchema with its own schema
ExtendFederationSchema ==
    /\ pc = "idle"
    /\ entry' = "extend"
    /\ \E original \in CallerSchemas :
          /\ schema' = original
          /\ originalSchema' = original
    /\ pc' = "extend"
    /\ UNCHANGED << revision, isGateway, document, partition, errors, thrown, result,
                    sdl, steps, calls >>
    /\ UNCHANGED resolverVars

\* Revision 1, lines 439-448
EnsureQuery ==
    /\ pc = "extend"
    /\ revision = 1
    /\ schema' = IF ~hasType(schema, "Query")
                    /\ \E i \in 1..Len(document) : document[i].name = "Query"
                 THEN WithEmptyQuery(schema)
                 ELSE schema
    /\ pc' = "validate"
    /\ UNCHANGED << revision, isGateway, document, entry, partition, errors, thrown,
                    result, sdl, steps, originalSchema,
                    calls >>
    /\ UNCHANGED resolverVars

\* Revision 2, line 773
Partition ==
    /\ pc = "extend"
    /\ revision = 2
    /\ partition' = getStubTypes(document, isGateway, revision)
    /\ document' = partition'.nodes
    /\ calls' = calls + 1
    /\ pc' = "stubs"
    /\ UNCHANGED << revision, isGateway, entry, schema, errors, thrown, result, sdl,
                    steps, originalSchema >>
    /\ UNCHANGED resolverVars

StubNode(stub) == Node(stub.name, stub.kind, FALSE, FALSE, {}, {})

StubNodes(stubs) == [i \in 1..Len(stubs) |-> StubNode(stubs[i])]

\* Revision 2, lines 803-806
InsertStubs ==
    /\ pc = "stubs"
    /\ IF ValidSDLExtension(schema, StubNodes(partition.typeStubs))
       THEN /\ schema' = extendSchema(schema, StubNodes(partition.typeStubs))
            /\ pc' = "definitions"
            /\ steps' = Append(steps, "stubs")
            /\ UNCHANGED thrown
       ELSE /\ Fail("GraphQLError")
            /\ UNCHANGED << schema, steps >>
    /\ UNCHANGED << revision, isGateway, document, entry, partition, errors, result, sdl, originalSchema,
                    calls >>
    /\ UNCHANGED resolverVars

\* Revision 2, lines 809-812
InsertDefinitions ==
    /\ pc = "definitions"
    /\ IF ValidSDLExtension(schema, partition.definitions)
       THEN /\ schema' = extendSchema(schema, partition.definitions)
            /\ pc' = "validate"
            /\ steps' = Append(steps, "definitions")
            /\ UNCHANGED thrown
       ELSE /\ Fail("GraphQLError")
            /\ UNCHANGED << schema, steps >>
    /\ UNCHANGED << revision, isGateway, document, entry, partition, errors, result, sdl, originalSchema,
                    calls >>
    /\ UNCHANGED resolverVars

\* The document the validator and the merge work on: revision 1 takes the
\* whole document, revision 2 the extensions of the partition
ExtensionsDocument == IF revision = 1 THEN document ELSE partition.extensions

\* Lines 455-462 and 824-831
Validate ==
    /\ pc = "validate"
    /\ \E errs \in validateSDL :
          /\ errors' = errs
          /\ thrown' = Raised(errs)
          /\ pc' = IF Len(errs) = 0 THEN "validated" ELSE "failed"
    /\ steps' = Append(steps, "validate")
    /\ UNCHANGED << revision, isGateway, document, entry, schema, partition, result, sdl, originalSchema,
                    calls >>
    /\ UNCHANGED resolverVars

\* Lines 465 and 833
ApplyExtensions ==
    /\ pc = "validated"
    /\ schema' = extendSchema(schema, ExtensionsDocument)
    /\ pc' = "applied"
    /\ steps' = Append(steps, "apply")
    /\ UNCHANGED << revision, isGateway, document, entry, partition, errors, thrown,
                    result, sdl, originalSchema,
                    calls >>
    /\ UNCHANGED resolverVars

\* The resolvers added whatever the mode
ServesFederationAlways(gateway) == TRUE

\* if (!isGateway): only a service gets the federation resolvers
ServesFederation(gateway) == ~gateway

\* if (!extendedSchema.getType('Query')) ...
SynthesizeQuery(s) == IF hasType(s, "Query") THEN s ELSE WithEmptyQuery(s)

\* Revision 1, lines 467-480
Finalize1 ==
    /\ pc = "applied"
    /\ revision = 1
    /\ LET s0 == SynthesizeQuery(schema)
           s1 == addEntitiesResolver(s0, 1)
       IN  IF ServesFederation(isGateway)
           THEN /\ schema' = addServiceResolver1(s1)
                /\ sdl' = serviceSDL(s1)
           ELSE schema' = s0 /\ UNCHANGED sdl
    /\ pc' = "resolved"
    /\ UNCHANGED << revision, isGateway, document, entry, partition, errors, thrown,
                    result, steps, originalSchema,
                    calls >>
    /\ UNCHANGED resolverVars

\* Revision 2, lines 835-850
Finalize2 ==
    /\ pc = "applied"
    /\ revision = 2
    /\ IF ServesFederation(isGateway)
       THEN LET s0 == SynthesizeQuery(schema)
                s1 == addServiceResolver2(AfterGetServiceSDL(s0))
            IN  /\ sdl' = getServiceSDL(s0)
                /\ IF addEntitiesResolverThrows(s1, 2)
                   THEN Fail("TypeError") /\ schema' = s1
                   ELSE /\ schema' = addEntitiesResolver(s1, 2)
                        /\ pc' = "resolved"
                        /\ UNCHANGED thrown
       ELSE UNCHANGED << schema, sdl, thrown >> /\ pc' = "resolved"
    /\ UNCHANGED << revision, isGateway, document, entry, partition, errors, result,
                    steps, originalSchema,
                    calls >>
    /\ UNCHANGED resolverVars

\* Revision 1 returns the schema with its roots set (lines 482-487); revision 2
\* returns extendedSchema (line 852) and buildFederationSchema sets the roots
\* (lines 865-870)
Returned(s) ==
    IF revision = 1 \/ entry = "build" THEN WithRoots(s) ELSE s

Return ==
    /\ pc = "resolved"
    /\ result' = Returned(schema)
    /\ pc' = "done"
    /\ UNCHANGED << revision, isGateway, document, entry, schema, partition, errors,
                    thrown, sdl, steps, originalSchema,
                    calls >>
    /\ UNCHANGED resolverVars

Next ==
    \/ BuildFederationSchema
    \/ ExtendFederationSchema
    \/ EnsureQuery
    \/ Partition
    \/ InsertStubs
    \/ InsertDefinitions
    \/ Validate
    \/ ApplyExtensions
    \/ Finalize1
    \/ Finalize2
    \/ Return

Spec == Init /\ [][Next]_vars

-----------------------------------------------------------------------------
(* The partitioner on its own: getStubTypes of either revision applied to the *)
(* definitions of a parsed document, once or again.                          *)

GetStubTypes ==
    /\ pc = "idle"
    /\ calls < MaxCalls
    /\ partition' = getStubTypes(document, isGateway, revision)
    /\ document' = partition'.nodes
    /\ calls' = calls + 1
    /\ UNCHANGED << revision, isGateway, entry, pc, schema, errors, thrown, result,
                    sdl, steps, originalSchema >>
    /\ UNCHANGED resolverVars

SpecStubs == Init /\ [][GetStubTypes]_vars

-----------------------------------------------------------------------------
(* The _entities resolver at request time (lines 248-273 and 685-712),       *)
(* serving the schema that revision 1 builds for a service whose document    *)
(* declares the entity type T.                                               *)

ServedDocument == << Node("T", OBJECT_TYPE_DEFINITION, FALSE, TRUE, {"t"}, {}) >>

ServedSchema ==
    LET merged == SynthesizeQuery(
                     extendSchema(extendSchema(EmptySchema, FEDERATION_SCHEMA(1)),
                                  ServedDocument))
    IN  WithRoots(addServiceResolver1(addEntitiesResolver(merged, 1)))

\* The property __typename of an object, as its property descriptor
NoProperty ==
    [present |-> FALSE, value |-> "", writable |-> FALSE, enumerable |-> FALSE,
     configurable |-> FALSE]

\* { __typename: value } of an object literal or of parsed JSON
Plain(value) ==
    [present |-> TRUE, value |-> value, writable |-> TRUE, enumerable |-> TRUE,
     configurable |-> TRUE]

\* What Object.defineProperty(obj, '__typename', { value }) creates
Tagged(value) ==
    [present |-> TRUE, value |-> value, writable |-> FALSE, enumerable |-> FALSE,
     configurable |-> FALSE]

\* Object.defineProperty(result, '__typename', { value: typename }) on an
\* extensible object: a new property gets the default attributes (all false);
\* an existing property keeps its attributes and takes the value (the values
\* modelled are configurable, or hold this very value already).
defineProperty(own, typename) ==
    IF own.present THEN [own EXCEPT !.value = typename] ELSE Tagged(typename)

\* A value: null or an object; from: the reference the resolver that made it
\* was called with; own: the object's property __typename
Null(id) == [kind |-> "null", from |-> id, own |-> NoProperty]

Object(id, own) == [kind |-> "object", from |-> id, own |-> own]

addTypeNameToResult(value, typename) ==
    IF value.kind = "object"
    THEN [value EXCEPT !.own = defineProperty(@, typename)]
    ELSE value

\* What a reference resolver of the service returns for a reference of type
\* T: null, a new object, an object that has its own __typename, or the
\* object an earlier call tagged; at once or as a promise.
ResolverValues ==
    { "null", "object", "plain", "tagged" }

Returns == [value : ResolverValues, deferred : BOOLEAN]

DefaultReturn == [value |-> "reference", deferred |-> FALSE]

Reference(typename, id, returns) ==
    [typename |-> typename, id |-> id, returns |-> returns]

\* Reference types: T is an object type, Query an object type without a
\* reference resolver, _Any is no object type, Mutation is not in the schema
References(i) ==
    { Reference("T", i, r) : r \in Returns \cup {DefaultReturn} }
    \cup { Reference(n, i, DefaultReturn) : n \in {"Query", "_Any", "Mutation"} }

RepresentationLists ==
    UNION { { reps \in [1..n -> UNION { References(i) : i \in 1..n }] :
                \A i \in 1..n : reps[i].id = i } : n \in 0..MaxReps }

\* resolveReference(reference, {}, context, info), or defaultResolveReference
ResolvedValue(reference, has) ==
    IF has /\ reference.typename = "T" /\ reference.returns # DefaultReturn
    THEN CASE reference.returns.value = "null" -> Null(reference.id)
           [] reference.returns.value = "object" -> Object(reference.id, NoProperty)
           [] reference.returns.value = "plain" -> Object(reference.id, Plain("Other"))
           [] OTHER -> Object(reference.id, Tagged(reference.typename))
    ELSE Object(reference.id, Plain(reference.typename))

IsDeferred(reference, has) ==
    has /\ reference.typename = "T" /\ reference.returns.deferred

\* The type lookup of the resolver
isKnownEntityType(typename) ==
    hasType(schema, typename) /\ isObjectType(getType(schema, typename))

\* One element of representations.map: a promise that will be fulfilled with
\* the tagged value of the resolver's promise, or the tagged value
ResolveOne(reference, has) ==
    IF IsDeferred(reference, has)
    THEN [state |-> "pending", value |-> ResolvedValue(reference, has)]
    ELSE [state |-> "value",
          value |-> addTypeNameToResult(ResolvedValue(reference, has),
                                        reference.typename)]

\* A resolver that leaves the null results out of the array
entitiesResolverDropsNull(reps, has) ==
    SelectSeq([i \in 1..Len(reps) |-> ResolveOne(reps[i], has)],
              LAMBDA e : e.value.kind # "null")

entitiesResolver(reps, has) == [i \in 1..Len(reps) |-> ResolveOne(reps[i], has)]

InitEntities ==
    /\ revision = 1
    /\ isGateway = FALSE
    /\ document = ServedDocument
    /\ entry = "build"
    /\ pc = "done"
    /\ schema = ServedSchema
    /\ partition = NoPartition
    /\ errors = << >>
    /\ thrown = NoError
    /\ result = ServedSchema
    /\ sdl = serviceSDL(ServedSchema)
    /\ steps = << "validate", "apply" >>
    /\ originalSchema = extendSchema(EmptySchema, FEDERATION_SCHEMA(1))
    /\ calls = 0
    /\ representations \in RepresentationLists
    /\ resolveReference \in BOOLEAN
    /\ (~resolveReference =>
          \A i \in 1..Len(representations) : representations[i].returns = DefaultReturn)
    /\ (resolveReference =>
          \A i \in 1..Len(representations) :
             representations[i].typename = "T" =>
                representations[i].returns # DefaultReturn)
    /\ entities = << >>
    /\ rpc = "idle"
    /\ rthrown = "none"

Unknown == { i \in 1..Len(representations) :
               ~isKnownEntityType(representations[i].typename) }

\* A call of the resolver: the map runs to its end and the array is
\* returned, or the callback throws at the first element of unknown type
EntitiesResolve ==
    /\ rpc = "idle"
    /\ IF Unknown = {}
       THEN /\ entities' = entitiesResolver(representations, resolveReference)
            /\ rpc' = "returned"
            /\ UNCHANGED rthrown
       ELSE /\ rthrown' = "unknown entity type"
            /\ rpc' = "thrown"
            /\ UNCHANGED entities
    /\ UNCHANGED << representations, resolveReference >>
    /\ UNCHANGED compositionVars

\* The promise of a reference resolver is fulfilled: the then callback tags
\* the value
Settle(i) ==
    /\ rpc = "returned"
    /\ entities[i].state = "pending"
    /\ entities' = [entities EXCEPT ![i] =
           [state |-> "settled",
            value |-> addTypeNameToResult(@.value, representations[i].typename)]]
    /\ UNCHANGED << representations, resolveReference, rpc, rthrown >>
    /\ UNCHANGED compositionVars

SettleSome == \E i \in 1..Len(entities) : Settle(i)

NextEntities ==
    \/ EntitiesResolve
    \/ SettleSome

SpecEntities == InitEntities /\ [][NextEntities]_vars

-----------------------------------------------------------------------------
(* Properties *)

Declares(name) == \E i \in 1..Len(document) : document[i].name = name

Built == pc = "done" /\ entry = "build"

\* C1: the schema buildFederationSchema returns has a Query root, for both
\* values of isGateway, and it has a Mutation root, respectively a
\* Subscription root, only if the document declared a type of that name.
C1_QueryRootAlways ==
    Built =>
       /\ result.query
       /\ hasType(result, "Query")
       /\ (result.mutation => Declares("Mutation"))
       /\ (result.subscription => Declares("Subscription"))

\* C2: no stub that getStubTypes returns is named Query, Mutation or
\* Subscription, in either mode.
C2_NoRootStub ==
    calls >= 1 =>
       \A i \in 1..Len(partition.typeStubs) :
          partition.typeStubs[i].name \notin RootNames

NodesNamed(name) == { i \in 1..Len(document) : document[i].name = name }

\* The name is declared, and only by declarations written in extension
\* syntax (a definition tagged @extends is not one)
OnlyExtensionSyntax(name) ==
    /\ Declares(name)
    /\ \A i \in NodesNamed(name) :
          isTypeExtensionNode(document[i]) /\ ~document[i].extends

StubsNamed(name) ==
    { i \in 1..Len(partition.typeStubs) : partition.typeStubs[i].name = name }

ExactlyOneStub(name) ==
    /\ Cardinality(StubsNamed(name)) = 1
    /\ \A i \in StubsNamed(name) :
          /\ isTypeDefinitionNode(partition.typeStubs[i])
          /\ definitionKindToExtensionKind(partition.typeStubs[i].kind) \in
                { document[j].kind : j \in NodesNamed(name) }

DeclaredFields(name) == UNION { document[i].fields : i \in NodesNamed(name) }

ExternalFields(name) == UNION { document[i].external : i \in NodesNamed(name) }

\* The schema as the merge leaves it, and the schema the call returns
Merged == IF pc = "done" THEN {schema, result}
          ELSE IF pc \in {"applied", "resolved"} THEN {schema}
          ELSE {}

C3Case == revision = 2 /\ calls >= 1 /\ OnlyExtensionSyntax("T")

Validated == "validate" \in Range(steps)

\* C4: zero errors: composition proceeds and returns a schema; one error:
\* that error is raised; two or more: one aggregate error carrying the whole
\* list in order; no schema is returned in the two error cases.
C4_ErrorPolicy ==
    (Validated /\ pc \in {"done", "failed"}) =>
       /\ Len(errors) = 0 => (pc = "done" /\ result # NoSchema)
       /\ Len(errors) = 1 =>
             /\ pc = "failed"
             /\ thrown = [kind |-> "error", errors |-> << errors[1] >>]
             /\ result = NoSchema
       /\ Len(errors) >= 2 =>
             /\ pc = "failed"
             /\ thrown = [kind |-> "aggregate", errors |-> errors]
             /\ result = NoSchema

\* C5: stubs, then definitions, then validation, then (zero errors) the
\* extensions; the extensions are applied only to a schema that has a stub
\* or a definition for each of their targets (applying an extension adds no
\* type, so the target of an applied extension is in the schema).
C5_MergeOrder ==
    /\ "apply" \in Range(steps) =>
          /\ steps = << "stubs", "definitions", "validate", "apply" >>
          /\ errors = << >>
    /\ pc = "applied" =>
          \A i \in 1..Len(ExtensionsDocument) :
             isTypeExtensionNode(ExtensionsDocument[i]) =>
                hasType(schema, ExtensionsDocument[i].name)

DeclaresQueryField(field) ==
    \E i \in NodesNamed("Query") : field \in document[i].fields

\* C6: in gateway mode composition adds no Query._service, no
\* Query._entities, no _Entity union and binds no resolver.
C6_GatewayNoFederationFields ==
    isGateway =>
       /\ \A s \in {schema} \cup Merged :
             /\ \A f \in {"_service", "_entities"} :
                   hasQueryField(s, f) =>
                      hasQueryField(originalSchema, f) \/ DeclaresQueryField(f)
             /\ ~hasType(s, "_Entity")
             /\ \A n \in TypeNames : \A f \in s.types[n].fields : ~f.resolve
       /\ sdl = NoSDL

C6_Witness ==
    /\ isGateway
    /\ pc = "done"
    /\ isObjectType(result.types["T"])
    /\ result.types["T"].key

KeyedObjectTypes(s) ==
    { n \in TypeNames : s.types[n].kind = "object" /\ s.types[n].key }

EntityUnion(members) ==
    [kind |-> "union", fields |-> {}, key |-> FALSE, members |-> members]

\* C7: in service mode the step that follows the merge adds the _Entity
\* union and Query._entities exactly when an object type carries @key, the
\* members being those types; a Query._entities that exists is kept.
C7_EntitiesWhenKeyed ==
    [][(pc = "applied" /\ pc' # "applied" /\ ~isGateway) =>
          LET keyed == KeyedObjectTypes(schema)
              had == hasQueryField(schema, "_entities")
          IN  /\ pc' = "resolved"
              /\ KeyedObjectTypes(schema') = keyed
              /\ (keyed = {} =>
                    /\ schema'.types["_Entity"] = schema.types["_Entity"]
                    /\ hasQueryField(schema', "_entities") <=> had)
              /\ (keyed # {} /\ ~had =>
                    /\ schema'.types["_Entity"] = EntityUnion(keyed)
                    /\ [name |-> "_entities", typed |-> TRUE, resolve |-> TRUE]
                          \in queryFields(schema'))
              /\ (had =>
                    /\ schema'.types["_Entity"] = schema.types["_Entity"]
                    /\ \E f \in queryFields(schema') :
                          f.name = "_entities" /\ f.typed)]_vars

Delivered(i) == entities[i].state \in {"value", "settled"}

C9_UnknownTypeFailsAlone ==
    (rpc # "idle" /\ Unknown # {}) =>
       /\ Len(entities) = Len(representations)
       /\ \A i \in 1..Len(representations) :
             i \notin Unknown => entities[i].value.from = representations[i].id

\* C10: every object the resolver delivers, at once or when its promise is
\* fulfilled, has a __typename equal to the type name of its reference, not
\* enumerable and not writable.
C10_TypenameTag ==
    rpc = "returned" =>
       \A i \in 1..Len(entities) :
          (Delivered(i) /\ entities[i].value.kind = "object") =>
             /\ entities[i].value.own.present
             /\ entities[i].value.own.value = representations[i].typename
             /\ ~entities[i].value.own.enumerable
             /\ ~entities[i].value.own.writable

Served == pc = "done" /\ ~isGateway

\* C11: the SDL of a composed service has no _Any or _FieldSet scalar, no
\* _Entity union, no _service or _entities field on Query, and no Query type
\* at all if Query has no other field.
C11_SDLStripped ==
    Served =>
       \A t \in sdl.types :
          /\ ~(t.kind = "scalar" /\ t.name \in {"_Any", "_FieldSet"})
          /\ ~(t.kind = "union" /\ t.name = "_Entity")
          /\ t.name = "Query" =>
                /\ t.fields \cap {"_service", "_entities"} = {}
                /\ t.fields # {}

\* C12: the SDL of a composed service defines none of the directives key,
\* extends, external, requires, provides.
C12_NoFederationDirectives ==
    Served => sdl.directives \cap FederationDirectives = {}

RootDeclarations == { i \in 1..Len(document) : document[i].name \in RootNames }

\* C13: in gateway mode the partitioner of revision 1 leaves every
\* declaration of a root type with an extension kind, puts each of them in
\* the extensions (none is dropped) and none in the definitions.
C13_GatewayRootsForced ==
    (revision = 1 /\ isGateway /\ calls = 1) =>
       /\ \A i \in RootDeclarations : isTypeExtensionNode(document[i])
       /\ \A i \in 1..Len(partition.definitions) :
             partition.definitions[i].name \notin RootNames
       /\ Cardinality({ i \in 1..Len(partition.extensions) :
                          /\ partition.extensions[i].name \in RootNames
                          /\ isTypeExtensionNode(partition.extensions[i]) })
             = Cardinality(RootDeclarations)

\* C14: in revision 2 the step that computes the service SDL and binds the
\* resolvers leaves Query with every field it had, each of them a complete
\* field (declared type and arguments), _service included.
C14_GetServiceSDLKeepsSchema ==
    [][(pc = "applied" /\ pc' # "applied" /\ revision = 2 /\ ~isGateway) =>
          /\ FieldNames(queryFields(SynthesizeQuery(schema)))
                \subseteq FieldNames(queryFields(schema'))
          /\ \A f \in queryFields(schema') : f.typed]_vars

\* C15: a second call of the partitioner on the same declaration objects
\* yields the stubs, the definitions and the extension declarations of the
\* first call; every stub has a definition kind and every declaration keeps
\* a defined kind.
C15_PartitionRepeatable ==
    [][(calls = 1 /\ calls' = 2) =>
          /\ partition'.typeStubs = partition.typeStubs
          /\ partition'.definitions = partition.definitions
          /\ Len(partition'.extensions) = Len(partition.extensions)
          /\ \A i \in 1..Len(partition'.typeStubs) :
                isTypeDefinitionNode(partition'.typeStubs[i])
          /\ \A i \in 1..Len(document') : document'[i].kind # Undefined]_vars

====
